---- MODULE Spec2Model ----
(***************************************************************************)
(* Model of the VIBE-TASK-ENGINE incentive engine (src/lib/IncentiveEngine *)
(* .ts): XP, leveling, combo, momentum and achievements computed by        *)
(* IncentiveEngine.processTaskCompletion, driven by a caller that keeps    *)
(* the current task list and the current GameState.                        *)
(***************************************************************************)
EXTENDS Integers, Sequences, FiniteSets, TLC

(***************************************************************************)
(* JavaScript numbers.  Every JS number is an IEEE-754 double.  The values *)
(* that stay integral (levels, XP, counts, timestamps) are far below 2^53  *)
(* and are modelled as integers.  The combo multiplier 1.0 + count * 0.1   *)
(* and the product baseXp * comboMultiplier are not integral: they are     *)
(* modelled as doubles, [m |-> mantissa, e |-> exponent] with value        *)
(* m * 2^e and a mantissa of exactly 53 bits, each operation rounding to   *)
(* nearest, ties to even.  A mantissa does not fit a TLC integer, so it is *)
(* a little-endian sequence of limbs in base 2^15 without leading zeros.   *)
(***************************************************************************)
Base == 2^15

RECURSIVE BigFromInt(_)
BigFromInt(n) ==
    IF n = 0 THEN <<>> ELSE <<n % Base>> \o BigFromInt(n \div Base)

RECURSIVE BigToInt(_)
BigToInt(a) ==
    IF a = <<>> THEN 0 ELSE Head(a) + Base * BigToInt(Tail(a))

RECURSIVE BigMulSmall(_, _, _)
BigMulSmall(a, k, carry) ==
    IF a = <<>> THEN BigFromInt(carry)
    ELSE LET p == Head(a) * k + carry
         IN  <<p % Base>> \o BigMulSmall(Tail(a), k, p \div Base)

RECURSIVE BigAdd(_, _, _)
BigAdd(a, b, carry) ==
    IF a = <<>> /\ b = <<>> THEN BigFromInt(carry)
    ELSE LET x == IF a = <<>> THEN 0 ELSE Head(a)
             y == IF b = <<>> THEN 0 ELSE Head(b)
             s == x + y + carry
         IN  <<s % Base>> \o BigAdd(IF a = <<>> THEN a ELSE Tail(a),
                                    IF b = <<>> THEN b ELSE Tail(b),
                                    s \div Base)

RECURSIVE BitLenInt(_)
BitLenInt(n) == IF n = 0 THEN 0 ELSE 1 + BitLenInt(n \div 2)

BigBitLen(a) ==
    IF a = <<>> THEN 0 ELSE 15 * (Len(a) - 1) + BitLenInt(a[Len(a)])

RECURSIVE BigStrip(_)
BigStrip(a) ==
    IF a # <<>> /\ a[Len(a)] = 0 THEN BigStrip(SubSeq(a, 1, Len(a) - 1)) ELSE a

BigOdd(a) == a # <<>> /\ Head(a) % 2 = 1

\* bit i (from 0) of a
BigBit(a, i) ==
    IF i \div 15 + 1 > Len(a) THEN 0 ELSE (a[i \div 15 + 1] \div 2^(i % 15)) % 2

\* whether the n lowest bits of a are all 0
BigLowZero(a, n) ==
    \A j \in 1..Len(a) :
        /\ j <= n \div 15 => a[j] = 0
        /\ j = n \div 15 + 1 => a[j] % 2^(n % 15) = 0

\* a shifted left by n bits
BigShiftLeft(a, n) ==
    IF a = <<>> THEN a
    ELSE [i \in 1..(n \div 15) |-> 0] \o BigMulSmall(a, 2^(n % 15), 0)

\* a shifted right by n bits (the n lowest bits are dropped)
BigShiftRight(a, n) ==
    LET limbs == n \div 15
        r     == n % 15
        at(i) == IF i > Len(a) THEN 0 ELSE a[i]
    IN  IF limbs >= Len(a) THEN <<>>
        ELSE BigStrip([i \in 1..(Len(a) - limbs) |->
                         (at(i + limbs) \div 2^r)
                         + (at(i + limbs + 1) % 2^r) * 2^(15 - r)])

\* The double nearest to a * 2^e (a > 0), ties to even: IEEE-754 rounding of
\* the exact result of an operation.
RoundToDouble(a, e) ==
    LET MantBits == 53
        len      == BigBitLen(a)
    IN  IF len <= MantBits
        THEN [m |-> BigShiftLeft(a, MantBits - len), e |-> e - (MantBits - len)]
        ELSE LET d      == len - MantBits
                 t      == BigShiftRight(a, d)
                 round  == BigBit(a, d - 1) = 1
                 sticky == ~BigLowZero(a, d - 1)
                 up     == round /\ (sticky \/ BigOdd(t))
                 q      == IF up THEN BigAdd(t, <<>>, 1) ELSE t
             IN  IF BigBitLen(q) > MantBits
                 THEN [m |-> BigShiftRight(q, 1), e |-> e + d + 1]
                 ELSE [m |-> q, e |-> e + d]

\* The double of an integer literal or integer-valued number n > 0.
FromInt(n) == RoundToDouble(BigFromInt(n), 0)

\* JS k * x for an integer-valued k (0 < k < 2^15) and a double x.
FMulInt(k, x) == RoundToDouble(BigMulSmall(x.m, k, 0), x.e)

\* JS x + y for doubles x, y > 0.
FAdd(x, y) ==
    LET e == IF x.e < y.e THEN x.e ELSE y.e
    IN  RoundToDouble(BigAdd(BigShiftLeft(x.m, x.e - e),
                             BigShiftLeft(y.m, y.e - e), 0), e)

\* Math.floor of a double x with 1 <= x < 2^31.
Floor(x) ==
    IF x.e >= 0 THEN BigToInt(BigShiftLeft(x.m, x.e))
    ELSE BigToInt(BigShiftRight(x.m, 0 - x.e))

\* Math.ceil of a double x with 1 <= x < 2^31.
Ceil(x) ==
    IF x.e >= 0 \/ BigLowZero(x.m, 0 - x.e) THEN Floor(x) ELSE Floor(x) + 1

\* The literal 1.0
One == FromInt(1)

\* The literal 0.1: the double 0x1.999999999999Ap-4
\* = 7205759403792794 * 2^-56 (mantissa 0x1999999999999A).
Tenth == [m |-> <<6554, 13107, 26214, 204>>, e |-> 0 - 56]

(***************************************************************************)
(* Values of src/unnamed/part_000 (types.ts).                              *)
(*   GameTask:    [id, originalText, questTitle, flavorText, difficulty,   *)
(*                 xp, completed]                                          *)
(*   Achievement: [id, icon, unlockedAt]                                   *)
(*   GameState:   [level, currentXp, totalXpNeeded, completedTasks,        *)
(*                 momentum, combo: [count, multiplier,                    *)
(*                 lastCompletionTime], achievements]                      *)
(* Task ids are opaque strings in the code and only compared for equality; *)
(* here they are the numbers 1..NumTasks, and 0 is an id no task has.      *)
(* A momentum sample is a multiple of 0.5 (xpGain * 0.5 is exact); the     *)
(* model stores twice its value, an integer.  An icon is written as an     *)
(* ASCII token in place of the emoji of the code.                          *)
(***************************************************************************)

\* null / undefined
Null == [null |-> TRUE]

\* an optional argument: supplied, or omitted
Some(v) == [given |-> TRUE, value |-> v]
Omitted == [given |-> FALSE]

MOMENTUM_HISTORY_LIMIT == 20
COMBO_WINDOW_MS == 30000

\* a GameTask that is not completed, with the text it was made from
GameTask(n, text, rank, base) ==
    [id |-> n, originalText |-> text, questTitle |-> "text",
     flavorText |-> "flavor", difficulty |-> rank, xp |-> base,
     completed |-> FALSE]

\* ---- bounds and inputs -------------------------------------------------
\* number of tasks in the caller's list
NumTasks == 3

\* the tasks a caller may hold, by position (rank, base XP); 5000 is an
\* award of several times the first threshold
Catalogue ==
    << [difficulty |-> "B", xp |-> 100],
       [difficulty |-> "S", xp |-> 500],
       [difficulty |-> "A", xp |-> 5000],
       [difficulty |-> "C", xp |-> 350],
       [difficulty |-> "B", xp |-> 100],
       [difficulty |-> "S", xp |-> 500] >>

\* the timestamps a caller may pass, in any order: 0, and values 5 s, 30 s
\* and 35 s apart
Timestamps == {0, 1000, 6000, 36000}

\* the ids a caller may pass: those of the list and one that is missing
TaskIdInputs == 0..NumTasks

InitialTasks ==
    [i \in 1..NumTasks |->
        [id |-> i, originalText |-> "text", questTitle |-> "text",
         flavorText |-> "flavor",
         difficulty |-> Catalogue[i].difficulty, xp |-> Catalogue[i].xp,
         completed |-> FALSE]]

\* ---- IncentiveEngine ---------------------------------------------------

\* Variant: the threshold divided by the growth factor instead of multiplied.
getNextLevelThreshold_Divided(currentThreshold) == (currentThreshold * 2) \div 3

\* Variant: a growth factor of 2 instead of 1.5.
getNextLevelThreshold_Doubled(currentThreshold) == currentThreshold * 2

\* Math.floor(currentThreshold * 1.5): the product is exact in a double, and
\* its floor is the integer quotient of 3 * currentThreshold by 2
getNextLevelThreshold(currentThreshold) == (currentThreshold * 3) \div 2

\* Variant: newMomentum.pop(), which drops the newest sample, for shift().
calculateMomentum_DropNewest(history, xpGain) ==
    LET lastValue   == IF Len(history) > 0 THEN history[Len(history)] ELSE 0
        newValue    == lastValue + xpGain
        newMomentum == Append(history, newValue)
    IN  IF Len(newMomentum) > MOMENTUM_HISTORY_LIMIT
        THEN SubSeq(newMomentum, 1, Len(newMomentum) - 1)
        ELSE newMomentum

\* Variant: the whole of xpGain added instead of xpGain * 0.5.
calculateMomentum_WholeGain(history, xpGain) ==
    LET lastValue   == IF Len(history) > 0 THEN history[Len(history)] ELSE 0
        newValue    == lastValue + 2 * xpGain
        newMomentum == Append(history, newValue)
    IN  IF Len(newMomentum) > MOMENTUM_HISTORY_LIMIT
        THEN Tail(newMomentum)
        ELSE newMomentum

\* history and the result hold doubled samples; xpGain * 0.5 doubled is xpGain
calculateMomentum(history, xpGain) ==
    LET lastValue   == IF Len(history) > 0 THEN history[Len(history)] ELSE 0
        newValue    == lastValue + xpGain
        newMomentum == Append(history, newValue)
    IN  IF Len(newMomentum) > MOMENTUM_HISTORY_LIMIT
        THEN Tail(newMomentum)
        ELSE newMomentum

\* Variant: the four rules without the test that the id is not unlocked yet.
checkAchievements_Ungated(state, task, isFirstTask, timestamp) ==
    LET unlock(cond, id, icon) ==
            IF cond
            THEN <<[id |-> id, icon |-> icon, unlockedAt |-> timestamp]>>
            ELSE <<>>
    IN  unlock(isFirstTask, "FIRST_BLOOD", "swords")
        \o unlock(state.combo.count >= 3, "COMBO_MASTER", "fire")
        \o unlock(task.difficulty = "S", "LEGENDARY", "crown")
        \o unlock(state.level >= 3, "VETERAN", "medal")

\* Variant: the VETERAN rule evaluated first instead of last.
checkAchievements_VeteranFirst(state, task, isFirstTask, timestamp) ==
    LET currentIds == {state.achievements[i].id : i \in DOMAIN state.achievements}
        unlock(cond, id, icon) ==
            IF cond /\ id \notin currentIds
            THEN <<[id |-> id, icon |-> icon, unlockedAt |-> timestamp]>>
            ELSE <<>>
    IN  unlock(state.level >= 3, "VETERAN", "medal")
        \o unlock(isFirstTask, "FIRST_BLOOD", "swords")
        \o unlock(state.combo.count >= 3, "COMBO_MASTER", "fire")
        \o unlock(task.difficulty = "S", "LEGENDARY", "crown")

\* Variant: the four rules chained with else-if, so that at most one unlocks.
checkAchievements_ElseIf(state, task, isFirstTask, timestamp) ==
    LET currentIds == {state.achievements[i].id : i \in DOMAIN state.achievements}
        ach(id, icon) == <<[id |-> id, icon |-> icon, unlockedAt |-> timestamp]>>
    IN  IF isFirstTask /\ "FIRST_BLOOD" \notin currentIds
        THEN ach("FIRST_BLOOD", "swords")
        ELSE IF state.combo.count >= 3 /\ "COMBO_MASTER" \notin currentIds
        THEN ach("COMBO_MASTER", "fire")
        ELSE IF task.difficulty = "S" /\ "LEGENDARY" \notin currentIds
        THEN ach("LEGENDARY", "crown")
        ELSE IF state.level >= 3 /\ "VETERAN" \notin currentIds
        THEN ach("VETERAN", "medal")
        ELSE <<>>

checkAchievements(state, task, isFirstTask, timestamp) ==
    LET currentIds == {state.achievements[i].id : i \in DOMAIN state.achievements}
        unlock(cond, id, icon) ==
            IF cond /\ id \notin currentIds
            THEN <<[id |-> id, icon |-> icon, unlockedAt |-> timestamp]>>
            ELSE <<>>
    IN  unlock(isFirstTask, "FIRST_BLOOD", "swords")
        \o unlock(state.combo.count >= 3, "COMBO_MASTER", "fire")
        \o unlock(task.difficulty = "S", "LEGENDARY", "crown")
        \o unlock(state.level >= 3, "VETERAN", "medal")

\* Variant: the last match for the first.
find_Last(currentTasks, taskId) ==
    LET matches == {i \in DOMAIN currentTasks : currentTasks[i].id = taskId}
    IN  IF matches = {} THEN Null
        ELSE currentTasks[CHOOSE i \in matches : \A j \in matches : i >= j]

\* currentTasks.find(t => t.id === taskId): the first match, or undefined
find(currentTasks, taskId) ==
    LET matches == {i \in DOMAIN currentTasks : currentTasks[i].id = taskId}
    IN  IF matches = {} THEN Null
        ELSE currentTasks[CHOOSE i \in matches : \A j \in matches : i <= j]

\* Variant: the guard without the test of the completed flag.
nothingToDo_MissingOnly(task) == task = Null

\* if (!task || task.completed) return null
nothingToDo(task) == task = Null \/ task.completed

\* Variant: completed set to whether the task is the one named, for every task.
newTasksOf_OnlyTarget(currentTasks, taskId) ==
    [i \in DOMAIN currentTasks |->
        [currentTasks[i] EXCEPT !.completed = (currentTasks[i].id = taskId)]]

\* Variant: the list returned without the completed flag set.
newTasksOf_Unmarked(currentTasks, taskId) == currentTasks

\* currentTasks.map(t => t.id === taskId ? { ...t, completed: true } : t)
newTasksOf(currentTasks, taskId) ==
    [i \in DOMAIN currentTasks |->
        IF currentTasks[i].id = taskId
        THEN [currentTasks[i] EXCEPT !.completed = TRUE]
        ELSE currentTasks[i]]

\* Variant: timestampOverride || Date.now(), which takes a supplied 0 as missing.
nowOf_Falsy(timestampOverride, dateNow) ==
    IF timestampOverride.given /\ timestampOverride.value # 0
    THEN timestampOverride.value
    ELSE dateNow

\* timestampOverride ?? Date.now()
nowOf(timestampOverride, dateNow) ==
    IF timestampOverride.given THEN timestampOverride.value ELSE dateNow

\* Variant: lastCompletionTime carried over from the snapshot passed in.
comboOf_StaleTime(currentState, now) ==
    LET timeDiff == now - currentState.combo.lastCompletionTime
    IN  IF timeDiff < COMBO_WINDOW_MS /\ currentState.combo.lastCompletionTime > 0
        THEN LET comboCount == currentState.combo.count + 1
             IN  [count |-> comboCount,
                  multiplier |-> FAdd(One, FMulInt(comboCount, Tenth)),
                  lastCompletionTime |-> currentState.combo.lastCompletionTime]
        ELSE [count |-> 1, multiplier |-> One,
              lastCompletionTime |-> currentState.combo.lastCompletionTime]

\* Variant: a completion that is not chained sets the count to 0.
comboOf_ResetToZero(currentState, now) ==
    LET timeDiff == now - currentState.combo.lastCompletionTime
    IN  IF timeDiff < COMBO_WINDOW_MS /\ currentState.combo.lastCompletionTime > 0
        THEN LET comboCount == currentState.combo.count + 1
             IN  [count |-> comboCount,
                  multiplier |-> FAdd(One, FMulInt(comboCount, Tenth)),
                  lastCompletionTime |-> now]
        ELSE [count |-> 0, multiplier |-> One, lastCompletionTime |-> now]

\* Variant: the window test with <= instead of <.
comboOf_InclusiveWindow(currentState, now) ==
    LET timeDiff == now - currentState.combo.lastCompletionTime
    IN  IF timeDiff <= COMBO_WINDOW_MS /\ currentState.combo.lastCompletionTime > 0
        THEN LET comboCount == currentState.combo.count + 1
             IN  [count |-> comboCount,
                  multiplier |-> FAdd(One, FMulInt(comboCount, Tenth)),
                  lastCompletionTime |-> now]
        ELSE [count |-> 1, multiplier |-> One, lastCompletionTime |-> now]

\* 2. Combo Calculation
comboOf(currentState, now) ==
    LET timeDiff == now - currentState.combo.lastCompletionTime
    IN  IF timeDiff < COMBO_WINDOW_MS /\ currentState.combo.lastCompletionTime > 0
        THEN LET comboCount == currentState.combo.count + 1
             IN  [count |-> comboCount,
                  multiplier |-> FAdd(One, FMulInt(comboCount, Tenth)),
                  lastCompletionTime |-> now]
        ELSE [count |-> 1, multiplier |-> One, lastCompletionTime |-> now]

\* Variant: the base XP awarded without the combo multiplier.
finalXpOf_BaseOnly(task, comboMultiplier) == task.xp

\* 3. XP Calculation
\* A product with baseXp < 0 is the negated product with -baseXp (rounding is
\* symmetric) and Math.floor(-p) is -Math.ceil(p); 0 * comboMultiplier is 0.
finalXpOf(task, comboMultiplier) ==
    LET baseXp == task.xp
    IN  IF baseXp > 0 THEN Floor(FMulInt(baseXp, comboMultiplier))
        ELSE IF baseXp = 0 THEN 0
        ELSE 0 - Ceil(FMulInt(0 - baseXp, comboMultiplier))

\* Variant: newXp set to 0 in the level-up branch, the overflow dropped.
levelOf_XpReset(currentState, finalXp) ==
    LET newXp == currentState.currentXp + finalXp
    IN  IF newXp >= currentState.totalXpNeeded
        THEN [newXp |-> 0,
              newLevel |-> currentState.level + 1,
              newTotalNeeded |-> getNextLevelThreshold(currentState.totalXpNeeded),
              leveledUp |-> TRUE]
        ELSE [newXp |-> newXp,
              newLevel |-> currentState.level,
              newTotalNeeded |-> currentState.totalXpNeeded,
              leveledUp |-> FALSE]

\* Variant: leveledUp left at its initial false in the level-up branch.
levelOf_FlagNeverSet(currentState, finalXp) ==
    LET newXp == currentState.currentXp + finalXp
    IN  IF newXp >= currentState.totalXpNeeded
        THEN [newXp |-> newXp - currentState.totalXpNeeded,
              newLevel |-> currentState.level + 1,
              newTotalNeeded |-> getNextLevelThreshold(currentState.totalXpNeeded),
              leveledUp |-> FALSE]
        ELSE [newXp |-> newXp,
              newLevel |-> currentState.level,
              newTotalNeeded |-> currentState.totalXpNeeded,
              leveledUp |-> FALSE]

\* 4. Level Calculation
levelOf(currentState, finalXp) ==
    LET newXp == currentState.currentXp + finalXp
    IN  IF newXp >= currentState.totalXpNeeded
        THEN [newXp |-> newXp - currentState.totalXpNeeded,
              newLevel |-> currentState.level + 1,
              newTotalNeeded |-> getNextLevelThreshold(currentState.totalXpNeeded),
              leveledUp |-> TRUE]
        ELSE [newXp |-> newXp,
              newLevel |-> currentState.level,
              newTotalNeeded |-> currentState.totalXpNeeded,
              leveledUp |-> FALSE]

\* Variant: the snapshot built without counting the completed task.
intermediateStateOf_NoCount(currentState, lv, newMomentum, combo) ==
    [currentState EXCEPT
        !.level = lv.newLevel,
        !.currentXp = lv.newXp,
        !.totalXpNeeded = lv.newTotalNeeded,
        !.momentum = newMomentum,
        !.combo = combo]

\* 6. Intermediate State for Achievement Check
intermediateStateOf(currentState, lv, newMomentum, combo) ==
    [currentState EXCEPT
        !.level = lv.newLevel,
        !.currentXp = lv.newXp,
        !.totalXpNeeded = lv.newTotalNeeded,
        !.completedTasks = currentState.completedTasks + 1,
        !.momentum = newMomentum,
        !.combo = combo]

\* Variant: the new records put in front of the accumulated ones.
finalAchievementsOf_Prepended(currentState, newAchievements) ==
    newAchievements \o currentState.achievements

\* [...currentState.achievements, ...newAchievements]
finalAchievementsOf(currentState, newAchievements) ==
    currentState.achievements \o newAchievements

\* Variant: comboCount >= 1 instead of comboCount > 1.
comboTriggeredOf_FromOne(comboCount) == comboCount >= 1

\* comboTriggered: comboCount > 1
comboTriggeredOf(comboCount) == comboCount > 1

\* dateNow is the reading of Date.now(), used when timestampOverride is omitted
processTaskCompletion(taskId, currentTasks, currentState, timestampOverride, dateNow) ==
    LET task == find(currentTasks, taskId)
    IN  IF nothingToDo(task) THEN Null
        ELSE
        LET newTasks          == newTasksOf(currentTasks, taskId)
            isFirstTask       == currentState.completedTasks = 0
            now               == nowOf(timestampOverride, dateNow)
            combo             == comboOf(currentState, now)
            finalXp           == finalXpOf(task, combo.multiplier)
            lv                == levelOf(currentState, finalXp)
            newMomentum       == calculateMomentum(currentState.momentum, finalXp)
            intermediateState == intermediateStateOf(currentState, lv, newMomentum, combo)
            newAchievements   == checkAchievements(intermediateState, task, isFirstTask, now)
            finalAchievements == finalAchievementsOf(currentState, newAchievements)
            finalState        == [intermediateState EXCEPT !.achievements = finalAchievements]
        IN  [newState |-> finalState,
             newTasks |-> newTasks,
             leveledUp |-> lv.leveledUp,
             xpGained |-> finalXp,
             achievementsUnlocked |-> newAchievements,
             comboTriggered |-> comboTriggeredOf(combo.count)]

\* Variant: a fresh snapshot that starts with a full XP bar.
createInitialState_FullBar ==
    [level |-> 1,
     currentXp |-> 1000,
     totalXpNeeded |-> 1000,
     completedTasks |-> 0,
     momentum |-> <<0, 200, 300, 240, 400>>,
     combo |-> [count |-> 0, multiplier |-> One, lastCompletionTime |-> 0],
     achievements |-> <<>>]

createInitialState ==
    [level |-> 1,
     currentXp |-> 0,
     totalXpNeeded |-> 1000,
     completedTasks |-> 0,
     momentum |-> <<0, 200, 300, 240, 400>>,
     combo |-> [count |-> 0, multiplier |-> One, lastCompletionTime |-> 0],
     achievements |-> <<>>]

(***************************************************************************)
(* The engine on a heap.  Arrays and objects are cells of a store, a       *)
(* sequence indexed by address; a field or an element that refers to an    *)
(* array or object holds its address.  A spread, a map, an object or array *)
(* literal allocates a cell; shift() and push() write the cell of the      *)
(* array they are called on.  Numbers, strings and booleans are stored in  *)
(* place.                                                                  *)
(***************************************************************************)

Alloc(store, cell) == Append(store, cell)

Write(store, ref, cell) == [store EXCEPT ![ref] = cell]

\* the arguments of a call laid out in a store: the task objects, the task
\* array, then momentum, combo, the achievement objects, the achievements
\* array and the snapshot object
HeapOf(currentTasks, currentState) ==
    LET n == Len(currentTasks)
        k == Len(currentState.achievements)
    IN  [store |-> currentTasks
                   \o <<[i \in 1..n |-> i]>>
                   \o <<currentState.momentum>>
                   \o <<currentState.combo>>
                   \o currentState.achievements
                   \o <<[i \in 1..k |-> n + 3 + i]>>
                   \o <<[currentState EXCEPT !.momentum = n + 2,
                                             !.combo = n + 3,
                                             !.achievements = n + 4 + k]>>,
         tasksRef |-> n + 1,
         stateRef |-> n + 5 + k]

\* the value of the array of objects at ref
ReadArray(store, ref) == [i \in DOMAIN store[ref] |-> store[store[ref][i]]]

\* the value of the snapshot at ref
ReadState(store, ref) ==
    [store[ref] EXCEPT !.momentum = store[store[ref].momentum],
                       !.combo = store[store[ref].combo],
                       !.achievements = ReadArray(store, store[ref].achievements)]

\* Variant: history.push(newValue) on the array passed in, for the copy
\* [...history, newValue].
calculateMomentumOnHeap_PushInPlace(store, historyRef, xpGain) ==
    LET history   == store[historyRef]
        lastValue == IF Len(history) > 0 THEN history[Len(history)] ELSE 0
        newValue  == lastValue + xpGain
        pushed    == Write(store, historyRef, Append(history, newValue))
    IN  IF Len(pushed[historyRef]) > MOMENTUM_HISTORY_LIMIT
        THEN [store |-> Write(pushed, historyRef, Tail(pushed[historyRef])),
              ref |-> historyRef]
        ELSE [store |-> pushed, ref |-> historyRef]

\* calculateMomentum: the copy is a new array, shift() writes that array
calculateMomentumOnHeap(store, historyRef, xpGain) ==
    LET history     == store[historyRef]
        lastValue   == IF Len(history) > 0 THEN history[Len(history)] ELSE 0
        newValue    == lastValue + xpGain
        copied      == Alloc(store, Append(history, newValue))
        newMomentum == Len(copied)
    IN  IF Len(copied[newMomentum]) > MOMENTUM_HISTORY_LIMIT
        THEN [store |-> Write(copied, newMomentum, Tail(copied[newMomentum])),
              ref |-> newMomentum]
        ELSE [store |-> copied, ref |-> newMomentum]

\* currentTasks.map(t => t.id === taskId ? { ...t, completed: true } : t):
\* a new object for a task of that id, the same object for any other, and a
\* new array (the last cell of the store returned) of the elements in mapped
RECURSIVE mapOnHeap(_, _, _, _)
mapOnHeap(store, refs, taskId, mapped) ==
    IF refs = <<>>
    THEN Alloc(store, mapped)
    ELSE IF store[Head(refs)].id = taskId
         THEN mapOnHeap(Alloc(store, [store[Head(refs)] EXCEPT !.completed = TRUE]),
                        Tail(refs), taskId, Append(mapped, Len(store) + 1))
         ELSE mapOnHeap(store, Tail(refs), taskId, Append(mapped, Head(refs)))

\* newUnlocks.push({ ... }) for each record of records in turn
RECURSIVE pushOnHeap(_, _, _)
pushOnHeap(store, arrayRef, records) ==
    IF records = <<>>
    THEN store
    ELSE LET allocated == Alloc(store, Head(records))
         IN  pushOnHeap(Write(allocated, arrayRef,
                              Append(allocated[arrayRef], Len(allocated))),
                        arrayRef, Tail(records))

\* checkAchievements: newUnlocks is a new empty array (the cell at ref),
\* filled by push
checkAchievementsOnHeap(store, stateRef, task, isFirstTask, timestamp) ==
    LET records  == checkAchievements(ReadState(store, stateRef), task,
                                      isFirstTask, timestamp)
        arrayRef == Len(store) + 1
    IN  [store |-> pushOnHeap(Alloc(store, <<>>), arrayRef, records),
         ref |-> arrayRef]

\* processTaskCompletion on the store: the store after the call and the
\* result, whose newState, newTasks and achievementsUnlocked are addresses
processTaskCompletionOnHeap(store, taskId, tasksRef, stateRef, timestampOverride, dateNow) ==
    LET currentTasks == ReadArray(store, tasksRef)
        currentState == ReadState(store, stateRef)
        task         == find(currentTasks, taskId)
    IN  IF nothingToDo(task) THEN [store |-> store, result |-> Null]
        ELSE
        LET afterMap     == mapOnHeap(store, store[tasksRef], taskId, <<>>)
            newTasks     == Len(afterMap)
            isFirstTask  == currentState.completedTasks = 0
            now          == nowOf(timestampOverride, dateNow)
            combo        == comboOf(currentState, now)
            finalXp      == finalXpOf(task, combo.multiplier)
            lv           == levelOf(currentState, finalXp)
            momentum     == calculateMomentumOnHeap(afterMap, store[stateRef].momentum, finalXp)
            afterCombo   == Alloc(momentum.store, combo)
            afterInter   == Alloc(afterCombo,
                                  [intermediateStateOf(store[stateRef], lv, momentum.ref,
                                                       Len(afterCombo))
                                   EXCEPT !.achievements = store[stateRef].achievements])
            unlocked     == checkAchievementsOnHeap(afterInter, Len(afterInter), task,
                                                    isFirstTask, now)
            afterFinal   == Alloc(unlocked.store,
                                  unlocked.store[store[stateRef].achievements]
                                  \o unlocked.store[unlocked.ref])
            afterState   == Alloc(afterFinal,
                                  [afterFinal[Len(afterInter)]
                                   EXCEPT !.achievements = Len(afterFinal)])
        IN  [store |-> afterState,
             result |-> [newState |-> Len(afterState),
                         newTasks |-> newTasks,
                         leveledUp |-> lv.leveledUp,
                         xpGained |-> finalXp,
                         achievementsUnlocked |-> unlocked.ref,
                         comboTriggered |-> comboTriggeredOf(combo.count)]]

\* the result of a call on the store with the values its addresses refer to
ReadResult(heapResult) ==
    IF heapResult.result = Null THEN Null
    ELSE [heapResult.result EXCEPT
             !.newState = ReadState(heapResult.store, heapResult.result.newState),
             !.newTasks = ReadArray(heapResult.store, heapResult.result.newTasks),
             !.achievementsUnlocked =
                 ReadArray(heapResult.store, heapResult.result.achievementsUnlocked)]

(***************************************************************************)
(* The caller.  It holds the task list and the snapshot, calls the engine  *)
(* with a task id and a timestamp, and on a non-null result replaces both  *)
(* by the returned values (LibraryTestBench.executeTask, useVibeGame       *)
(* .completeTask).  call and result record the last call's arguments and   *)
(* its return value; nonNullResults counts the non-null results so far.    *)
(***************************************************************************)
VARIABLES tasks, state, call, result, nonNullResults

\* What the components around a caller hold besides: the virtual time and the
\* log of LibraryTestBench (logs is also the log of useVibeGame).  The callers
\* below that are the engine's direct callers leave them as HostIdle sets them.
VARIABLES virtualTime, logs

\* The state of App (src/App.tsx:13-24), the stored session of
\* PersistenceService (localStorage), and the handleStartGeneration calls
\* that are awaiting their tasks, with the count of the calls started.
VARIABLES phase, appTasks, currentTheme, resumableSession, initialGameState,
          initialLogs, viewGameState, storage, generating, started

\* Whether the build has process.env.API_KEY (src/services/geminiService.ts:16).
VARIABLES apiKey

\* The mounted PhaseExecution with its useVibeGame (tasks, state and logs are
\* its tasks, gameState and logs): whether it is mounted, the values its last
\* render gave to the handlers and effects, its events, the arguments of the
\* pending auto-save timer, the pending cleanup timers, and the clock that
\* Date.now() reads.
VARIABLES mounted, rendered, events, saveTimer, cleanupTimers, clock

\* The snapshots with completed tasks that a hard reset wiped and no import
\* brought back since.
VARIABLES discarded

appVars == <<phase, appTasks, currentTheme, resumableSession, initialGameState,
             initialLogs, viewGameState, storage, generating, started, apiKey>>

hookVars == <<mounted, rendered, events, saveTimer, cleanupTimers, clock>>

hostVars == <<virtualTime, logs, appVars, hookVars, discarded>>

vars == <<tasks, state, call, result, nonNullResults, virtualTime, logs,
          appVars, hookVars, discarded>>

NoCall == [none |-> TRUE]

\* App before anything is started, nothing stored, nothing mounted, in a
\* build with the key or without, at the time now
AppStart(key, now) ==
    /\ apiKey = key
    /\ phase = "INPUT"
    /\ appTasks = <<>>
    /\ currentTheme = Null
    /\ resumableSession = Null
    /\ initialGameState = Null
    /\ initialLogs = <<>>
    /\ viewGameState = Null
    /\ storage = Null
    /\ generating = {}
    /\ started = 0
    /\ mounted = FALSE
    /\ rendered = Null
    /\ events = <<>>
    /\ saveTimer = Null
    /\ cleanupTimers = <<>>
    /\ clock = now
    /\ discarded = {}

AppIdle == AppStart(TRUE, 0)

HostIdle ==
    /\ virtualTime = 0
    /\ logs = <<>>
    /\ AppIdle

Init ==
    /\ tasks = InitialTasks
    /\ state = createInitialState
    /\ call = NoCall
    /\ result = Null
    /\ nonNullResults = 0
    /\ HostIdle

\* one call processTaskCompletion(taskId, tasks, state, timestamp)
Complete(taskId, timestamp) ==
    \E r \in {processTaskCompletion(taskId, tasks, state, Some(timestamp), 0)} :
        /\ call' = [taskId |-> taskId, currentTasks |-> tasks,
                    currentState |-> state, timestampOverride |-> Some(timestamp)]
        /\ result' = r
        /\ UNCHANGED hostVars
        /\ IF r = Null
           THEN UNCHANGED <<tasks, state, nonNullResults>>
           ELSE /\ tasks' = r.newTasks
                /\ state' = r.newState
                /\ nonNullResults' = nonNullResults + 1

Next == \E taskId \in TaskIdInputs, timestamp \in Timestamps : Complete(taskId, timestamp)

Spec == Init /\ [][Next]_vars

\* ---- a session imported from a file -----------------------------------
\* importStateJSON accepts any file that has themeId, tasks and gameState; the
\* values of the fields are not validated, and the imported tasks and
\* gameState are what PhaseExecution starts from.

\* tasks of the imported list
NumImportedTasks == 2

\* xp of an imported task: negative, zero, valid
ImportedXp == {0 - 100, 0, 100}

\* totalXpNeeded of an imported snapshot: negative, zero, valid
ImportedThresholds == {0 - 1000, 0, 1000}

InitImported ==
    /\ \E xps \in [1..NumImportedTasks -> ImportedXp] :
          tasks = [i \in 1..NumImportedTasks |->
                      [id |-> i, originalText |-> "text", questTitle |-> "text",
                       flavorText |-> "flavor", difficulty |-> "B",
                       xp |-> xps[i], completed |-> FALSE]]
    /\ \E threshold \in ImportedThresholds :
          state = [createInitialState EXCEPT !.totalXpNeeded = threshold]
    /\ call = NoCall
    /\ result = Null
    /\ nonNullResults = 0
    /\ HostIdle

SpecImported == InitImported /\ [][Next]_vars

\* ---- a list with repeated ids ---------------------------------------------
\* The engine takes any GameTask[]; nothing in it or in importStateJSON tests
\* that the ids of a list differ.

\* tasks of the list with repeated ids
NumDuplicateTasks == 3

\* ids the tasks of that list draw from, fewer than there are tasks
NumDuplicateIds == 2

\* any assignment of the ids to the positions, and any completed flags; the
\* rank and the base XP of a task are those of its position
InitDuplicates ==
    /\ \E ids \in [1..NumDuplicateTasks -> 1..NumDuplicateIds],
          done \in [1..NumDuplicateTasks -> BOOLEAN] :
          tasks = [i \in 1..NumDuplicateTasks |->
                      [id |-> ids[i], originalText |-> "text",
                       questTitle |-> "text", flavorText |-> "flavor",
                       difficulty |-> Catalogue[i].difficulty,
                       xp |-> Catalogue[i].xp, completed |-> done[i]]]
    /\ state = createInitialState
    /\ call = NoCall
    /\ result = Null
    /\ nonNullResults = 0
    /\ HostIdle

\* the timestamps passed to the calls on that list, inside one combo window
DuplicateTimestamps == {1000, 3000}

\* a call for any id of the list or for the missing id 0
NextDuplicates ==
    \E taskId \in 0..NumDuplicateIds, timestamp \in DuplicateTimestamps :
        Complete(taskId, timestamp)

SpecDuplicates == InitDuplicates /\ [][NextDuplicates]_vars

\* ---- a long session: the tasks of a long list completed in list order ----

\* tasks of the long list
NumLongTasks == 17

\* breaks the length of the long session leaves room for
MaxBreaks == 2

\* advanceTime(5000) after every execution
AutoAdvance == 5000

\* the '+31s (Break Combo)' button
BreakCombo == 31000

\* time from one completion to the next: without and with a break
Gaps == {AutoAdvance, AutoAdvance + BreakCombo}

\* the time at which the long session is over
SessionEnd == NumLongTasks * AutoAdvance + MaxBreaks * BreakCombo

LongTasks ==
    [i \in 1..NumLongTasks |->
        LET entry == Catalogue[((i - 1) % Len(Catalogue)) + 1]
        IN  [id |-> i, originalText |-> "text", questTitle |-> "text",
             flavorText |-> "flavor",
             difficulty |-> entry.difficulty, xp |-> entry.xp,
             completed |-> FALSE]]

InitLong ==
    /\ tasks = LongTasks
    /\ state = createInitialState
    /\ call = NoCall
    /\ result = Null
    /\ nonNullResults = 0
    /\ HostIdle

\* the first task not yet completed is completed, gap after the previous one
CompleteNext(gap) ==
    \E i \in DOMAIN tasks :
        /\ ~tasks[i].completed
        /\ \A j \in 1..(i - 1) : tasks[j].completed
        /\ state.combo.lastCompletionTime + gap <= SessionEnd
        /\ Complete(tasks[i].id, state.combo.lastCompletionTime + gap)

NextLong == \E gap \in Gaps : CompleteNext(gap)

SpecLong == InitLong /\ [][NextLong]_vars

(***************************************************************************)
(* LibraryTestBench: the engine driven with a virtual time.  tasks is      *)
(* testTasks, state is gameState; every handler runs in the render of the  *)
(* values it reads.  A log entry is [time, message] with what the message  *)
(* text is built from.                                                     *)
(***************************************************************************)

\* executions of the bench
MaxExecutions == 3

\* presses of the time buttons since the log was last cleared
MaxAdvances == 1

\* useState(1000000)
VirtualTimeStart == 1000000

\* the task buttons (difficulty, xp) and the time buttons (ms) pressed
TaskButtons == {[difficulty |-> "B", xp |-> 100], [difficulty |-> "S", xp |-> 500]}

TimeButtons == {1000, 10000, BreakCombo, 60000}

createDummyTask(id, diff, xp) ==
    [id |-> id, originalText |-> "Test Task", questTitle |-> "Operation",
     flavorText |-> "Simulation running...", difficulty |-> diff, xp |-> xp,
     completed |-> FALSE]

\* t1 .. t8
testTasks ==
    <<createDummyTask(1, "B", 100), createDummyTask(2, "B", 100),
      createDummyTask(3, "A", 300), createDummyTask(4, "S", 500),
      createDummyTask(5, "C", 50), createDummyTask(6, "B", 100),
      createDummyTask(7, "B", 100), createDummyTask(8, "S", 500)>>

\* setLogs(prev => [{ time: virtualTime, message }, ...prev])
addLog(prev, entry) == <<entry>> \o prev

\* the entries of the time buttons in a log
ManualAdvances(log) ==
    {i \in DOMAIN log : log[i].message = "Time advanced" /\ log[i].ms # AutoAdvance}

InitBench ==
    /\ tasks = testTasks
    /\ state = createInitialState
    /\ virtualTime = VirtualTimeStart
    /\ logs = <<>>
    /\ call = NoCall
    /\ result = Null
    /\ nonNullResults = 0
    /\ AppIdle

\* Variant: the call made without the virtual time.
timestampOf_Omitted(time) == Omitted

\* the fourth argument of the call: virtualTime
timestampOf(time) == Some(time)

\* addLog for each unlocked achievement of the result, in order
RECURSIVE unlockLogs(_, _, _)
unlockLogs(prev, time, unlocked) ==
    IF unlocked = <<>> THEN prev
    ELSE unlockLogs(addLog(prev, [time |-> time, message |-> "UNLOCKED",
                                  id |-> Head(unlocked).id]),
                    time, Tail(unlocked))

\* executeTask(diff, xp): the temporary task has an id no other task has
executeTask(diff, xp) ==
    /\ nonNullResults < MaxExecutions
    /\ \E tempId \in {Len(tasks) + nonNullResults + 1} :
       \E currentTasks \in {tasks \o <<createDummyTask(tempId, diff, xp)>>} :
       \E r \in {processTaskCompletion(tempId, currentTasks, state,
                                       timestampOf(virtualTime), 0)} :
          /\ call' = [taskId |-> tempId, currentTasks |-> currentTasks,
                      currentState |-> state,
                      timestampOverride |-> timestampOf(virtualTime)]
          /\ result' = r
          /\ UNCHANGED <<tasks, appVars, hookVars, discarded>>
          /\ IF r = Null
             THEN UNCHANGED <<state, nonNullResults, virtualTime, logs>>
             ELSE /\ state' = r.newState
                  /\ nonNullResults' = nonNullResults + 1
                  /\ virtualTime' = virtualTime + AutoAdvance
                  /\ logs' = addLog(
                        unlockLogs(
                          addLog(logs, [time |-> virtualTime, message |-> "Completed",
                                        diff |-> diff, xpGained |-> r.xpGained,
                                        combo |-> IF r.comboTriggered
                                                  THEN r.newState.combo.count ELSE 0,
                                        leveledUp |-> r.leveledUp]),
                          virtualTime, r.achievementsUnlocked),
                        [time |-> virtualTime, message |-> "Time advanced",
                         ms |-> AutoAdvance])

\* a time button: advanceTime(ms)
advanceTime(ms) ==
    /\ Cardinality(ManualAdvances(logs)) < MaxAdvances
    /\ virtualTime' = virtualTime + ms
    /\ logs' = addLog(logs, [time |-> virtualTime, message |-> "Time advanced",
                             ms |-> ms])
    /\ UNCHANGED <<tasks, state, call, result, nonNullResults>>
    /\ UNCHANGED <<appVars, hookVars, discarded>>

\* resetEngine; the record of the last call and the count of the results
\* start over with the engine
resetEngine ==
    /\ state' = createInitialState
    /\ virtualTime' = VirtualTimeStart
    /\ logs' = addLog(<<>>, [time |-> virtualTime, message |-> "Engine Reset"])
    /\ call' = NoCall
    /\ result' = Null
    /\ nonNullResults' = 0
    /\ UNCHANGED <<tasks, appVars, hookVars, discarded>>

NextBench ==
    \/ \E button \in TaskButtons : executeTask(button.difficulty, button.xp)
    \/ \E ms \in TimeButtons : advanceTime(ms)
    \/ resetEngine

SpecBench == InitBench /\ [][NextBench]_vars

(***************************************************************************)
(* App with PhaseExecution and useVibeGame.  tasks, state and logs are the *)
(* tasks, gameState and logs of the hook; while PhaseExecution is not      *)
(* mounted they are <<>>, Null and <<>>.  A session is [themeId, tasks,    *)
(* gameState, logs], a theme is [id], a log entry is [type, ...] with      *)
(* the details its message is built from (lastUpdated and the id and       *)
(* timestamp of a log entry are left out: nothing reads them).  A handler  *)
(* of App runs in the render of the values it reads; the handlers of the   *)
(* hook read the values of the hook's last render.  The awaits of          *)
(* handleSoftReset and handleHardReset are on localStorage and resolve     *)
(* before any timer or click.                                              *)
(***************************************************************************)

\* tasks of one generation
NumAppTasks == 2

\* calls of handleStartGeneration
MaxGenerations == 1

\* non-null results of completeTask
MaxAppCompletions == 2

\* calls of addNewTasks since the logs were last empty
MaxAddedTasks == 1

\* the ids of THEMES (src/unnamed/part_000), and the theme the player picks
THEMES ==
    <<[id |-> "cyberpunk"], [id |-> "fantasy"], [id |-> "corporate"],
      [id |-> "eldritch"]>>

PickedThemes == {THEMES[2]}

\* THEMES.find(t => t.id === themeId) || THEMES[0]
themeOf(themeId) ==
    IF \E i \in DOMAIN THEMES : THEMES[i].id = themeId
    THEN [id |-> themeId]
    ELSE THEMES[1]

\* Date.now() when the page is opened, later than the combo window after 0,
\* and the time from one completion to the next reading of the clock
ClockStart == BreakCombo

ClickGaps == {1000}

\* the tasks generateGameTasks returns to the n-th call: ids no other call
\* returns, ranks S and A
generatedTasksOf(n) ==
    [i \in 1..NumAppTasks |->
        GameTask((n - 1) * NumAppTasks + i, "text", Catalogue[i + 1].difficulty,
                 Catalogue[i + 1].xp)]

\* the task that onGenerateMore returns to the n-th call
addedTasksOf(n) ==
    << GameTask(MaxGenerations * NumAppTasks + n, "text", "B", 100) >>

\* createSession
createSession(themeId, sessionTasks, gameState, sessionLogs) ==
    [themeId |-> themeId, tasks |-> sessionTasks, gameState |-> gameState,
     logs |-> sessionLogs]

\* the themes of the files: one that THEMES does not have
ImportedThemeIds == {"retro"}

\* resumableSession && resumableSession.tasks.length > 0
ResumeOverlay == resumableSession # Null /\ Len(resumableSession.tasks) > 0

\* the SESSION_START entries of a log
AddedCalls(log) == {i \in DOMAIN log : log[i].type = "SESSION_START"}

\* ---- PhaseExecution and useVibeGame -------------------------------------

\* PhaseExecution is mounted: the useState initial values, the first render,
\* the auto-save effect and the onStateUpdate effect
MountWith(theme, initialTasks, gameState, sessionLogs) ==
    \E first \in {IF gameState = Null THEN createInitialState ELSE gameState} :
        /\ mounted' = TRUE
        /\ tasks' = initialTasks
        /\ state' = first
        /\ logs' = sessionLogs
        /\ events' = <<>>
        /\ rendered' = [tasks |-> initialTasks, gameState |-> first,
                        logs |-> sessionLogs]
        /\ saveTimer' = createSession(theme.id, initialTasks, first, sessionLogs)
        /\ cleanupTimers' = <<>>
        /\ viewGameState' = first

\* PhaseExecution is unmounted (or was not mounted): the cleanup of the
\* auto-save effect clears its timer; the cleanup timers of the events no
\* longer have a state to set
Unmount ==
    /\ mounted' = FALSE
    /\ tasks' = <<>>
    /\ state' = Null
    /\ logs' = <<>>
    /\ events' = <<>>
    /\ rendered' = Null
    /\ saveTimer' = Null
    /\ cleanupTimers' = <<>>

\* PhaseExecution stays as it is
KeepHook == UNCHANGED <<mounted, tasks, state, logs, events, rendered, saveTimer,
                        cleanupTimers>>

\* the ids of the tasks on the screen
RenderedIds ==
    IF mounted THEN {rendered.tasks[i].id : i \in DOMAIN rendered.tasks} ELSE {}

\* Variant: completeTask reading the state that was set last.
closureOf_Latest(lastRender, currentTasks, currentState) ==
    [tasks |-> currentTasks, gameState |-> currentState]

\* the tasks and gameState that completeTask reads: those of the render that
\* created it (useCallback with [tasks, gameState])
closureOf(lastRender, currentTasks, currentState) ==
    [tasks |-> lastRender.tasks, gameState |-> lastRender.gameState]

\* newEvents of a result
newEventsOf(taskId, r) ==
    << [type |-> "COMPLETE", taskId |-> taskId, xp |-> r.xpGained,
        combo |-> IF r.comboTriggered THEN r.newState.combo.count ELSE 0] >>
    \o (IF r.leveledUp
        THEN << [type |-> "LEVEL_UP", level |-> r.newState.level] >>
        ELSE <<>>)
    \o [i \in DOMAIN r.achievementsUnlocked |->
            [type |-> "ACHIEVEMENT", id |-> r.achievementsUnlocked[i].id]]

\* newLogs of a result
newLogsOf(taskId, r) ==
    << [type |-> "TASK_COMPLETE", taskId |-> taskId, xp |-> r.xpGained,
        combo |-> r.comboTriggered] >>
    \o (IF r.leveledUp
        THEN << [type |-> "LEVEL_UP", level |-> r.newState.level] >>
        ELSE <<>>)
    \o [i \in DOMAIN r.achievementsUnlocked |->
            [type |-> "ACHIEVEMENT_UNLOCK", id |-> r.achievementsUnlocked[i].id]]

\* completeTask(taskId), a click on a task of the rendered list; gap is the
\* time until the next reading of the clock
completeTask(taskId, gap) ==
    /\ mounted
    /\ nonNullResults < MaxAppCompletions
    /\ \E closure \in {closureOf(rendered, tasks, state)} :
       \E r \in {processTaskCompletion(taskId, closure.tasks, closure.gameState,
                                       Omitted, clock)} :
          /\ call' = [taskId |-> taskId, currentTasks |-> closure.tasks,
                      currentState |-> closure.gameState,
                      timestampOverride |-> Omitted]
          /\ result' = r
          /\ UNCHANGED <<virtualTime, appVars, discarded, mounted, rendered,
                         saveTimer>>
          /\ IF r = Null
             THEN UNCHANGED <<tasks, state, logs, events, cleanupTimers, clock,
                              nonNullResults>>
             ELSE /\ tasks' = r.newTasks
                  /\ state' = r.newState
                  /\ events' = events \o newEventsOf(taskId, r)
                  /\ logs' = newLogsOf(taskId, r) \o logs
                  /\ cleanupTimers' = Append(cleanupTimers,
                                             Len(newEventsOf(taskId, r)))
                  /\ nonNullResults' = nonNullResults + 1
                  /\ clock' = clock + gap

\* addNewTasks(newTasks), after onGenerateMore returned the tasks
addNewTasks ==
    /\ mounted
    /\ apiKey
    /\ Cardinality(AddedCalls(logs)) < MaxAddedTasks
    /\ \E newTasks \in {addedTasksOf(Cardinality(AddedCalls(logs)) + 1)} :
          /\ tasks' = tasks \o newTasks
          /\ logs' = << [type |-> "SESSION_START", count |-> Len(newTasks)] >>
                     \o logs
    /\ UNCHANGED <<state, call, result, nonNullResults, virtualTime, appVars,
                   discarded, mounted, rendered, events, saveTimer,
                   cleanupTimers, clock>>

\* the render after tasks, gameState or logs were set: the handlers read the
\* new values, the auto-save effect clears its timer and sets a new one, and
\* the onStateUpdate effect sets viewGameState
Render ==
    /\ mounted
    /\ rendered # [tasks |-> tasks, gameState |-> state, logs |-> logs]
    /\ rendered' = [tasks |-> tasks, gameState |-> state, logs |-> logs]
    /\ saveTimer' = createSession(currentTheme.id, tasks, state, logs)
    /\ viewGameState' = state
    /\ UNCHANGED <<tasks, state, call, result, nonNullResults, virtualTime, logs,
                   phase, appTasks, currentTheme, resumableSession,
                   initialGameState, initialLogs, storage, generating, started,
                   apiKey, mounted, events, cleanupTimers, clock, discarded>>

\* the auto-save timer fires: saveState with the values of its render
AutoSave ==
    /\ saveTimer # Null
    /\ storage' = saveTimer
    /\ saveTimer' = Null
    /\ UNCHANGED <<tasks, state, call, result, nonNullResults, virtualTime, logs,
                   phase, appTasks, currentTheme, resumableSession,
                   initialGameState, initialLogs, viewGameState, generating,
                   started, apiKey, mounted, rendered, events, cleanupTimers,
                   clock, discarded>>

\* Variant: the events removed from the end, prev.slice(0, -n).
slice_FromEnd(prev, n) ==
    IF n >= Len(prev) THEN <<>> ELSE SubSeq(prev, 1, Len(prev) - n)

\* prev.slice(n)
slice(prev, n) ==
    IF n >= Len(prev) THEN <<>> ELSE SubSeq(prev, n + 1, Len(prev))

\* the oldest cleanup timer fires (all have the same delay)
CleanupEvents ==
    /\ cleanupTimers # <<>>
    /\ events' = slice(events, Head(cleanupTimers))
    /\ cleanupTimers' = Tail(cleanupTimers)
    /\ UNCHANGED <<tasks, state, call, result, nonNullResults, virtualTime, logs,
                   appVars, discarded, mounted, rendered, saveTimer, clock>>

\* ---- App ----------------------------------------------------------------

\* what a handler of App leaves alone besides the state of App and the hook
AppHandler == UNCHANGED <<call, result, nonNullResults, virtualTime, clock, apiKey>>

\* handleStartGeneration(rawTasks, theme), up to the await; without the key
\* generateGameTasks throws at once and the catch block runs before anything
\* else does
handleStartGeneration(theme) ==
    /\ phase = "INPUT"
    /\ ~ResumeOverlay
    /\ started < MaxGenerations
    /\ \E baseState \in {IF resumableSession = Null THEN Null
                         ELSE resumableSession.gameState} :
       \E baseLogs \in {IF resumableSession = Null THEN <<>>
                        ELSE resumableSession.logs} :
          /\ currentTheme' = theme
          /\ initialGameState' = baseState
          /\ initialLogs' = baseLogs
          /\ started' = started + 1
          /\ IF apiKey
             THEN /\ phase' = "GENERATING"
                  /\ generating' = generating \cup
                        {[call |-> started + 1, theme |-> theme,
                          baseState |-> baseState, baseLogs |-> baseLogs]}
             ELSE /\ phase' = "INPUT"
                  /\ UNCHANGED generating
    /\ UNCHANGED <<appTasks, resumableSession, viewGameState, storage, discarded>>
    /\ KeepHook
    /\ AppHandler

\* handleStartGeneration after the await, for the call g: the generated tasks
\* arrived
generationDone(g) ==
    /\ g \in generating
    /\ generating' = generating \ {g}
    /\ appTasks' = generatedTasksOf(g.call)
    /\ phase' = "EXECUTION"
    /\ storage' = IF g.baseState # Null
                  THEN createSession(g.theme.id, generatedTasksOf(g.call),
                                     g.baseState, g.baseLogs)
                  ELSE storage
    /\ UNCHANGED <<currentTheme, resumableSession, initialGameState, initialLogs,
                   started, discarded>>
    /\ IF mounted \/ currentTheme = Null
       THEN KeepHook /\ UNCHANGED viewGameState
       ELSE MountWith(currentTheme, generatedTasksOf(g.call), initialGameState,
                      initialLogs)
    /\ AppHandler

\* handleResume
handleResume ==
    /\ phase = "INPUT"
    /\ ResumeOverlay
    /\ currentTheme' = themeOf(resumableSession.themeId)
    /\ appTasks' = resumableSession.tasks
    /\ initialGameState' = resumableSession.gameState
    /\ initialLogs' = resumableSession.logs
    /\ phase' = "EXECUTION"
    /\ resumableSession' = Null
    /\ MountWith(themeOf(resumableSession.themeId), resumableSession.tasks,
                 resumableSession.gameState, resumableSession.logs)
    /\ UNCHANGED <<storage, generating, started, discarded>>
    /\ AppHandler

\* the session importStateJSON resolves with for a file of the theme
\* themeId: played up to the first of its two tasks
importStateJSON(themeId) ==
    LET base == MaxGenerations * NumAppTasks + MaxAddedTasks
        fresh == [i \in 1..2 |-> GameTask(base + i, themeId, "B", 100)]
        played == processTaskCompletion(base + 1, fresh, createInitialState,
                                        Omitted, COMBO_WINDOW_MS)
    IN  createSession(themeId, played.newTasks, played.newState, <<>>)

\* handleImportSession(session), with the session of a file of the theme
\* themeId
handleImportSession(themeId) ==
    /\ phase = "INPUT"
    /\ ~ResumeOverlay
    /\ \E session \in {importStateJSON(themeId)} :
          /\ currentTheme' = themeOf(session.themeId)
          /\ appTasks' = session.tasks
          /\ initialGameState' = session.gameState
          /\ initialLogs' = session.logs
          /\ resumableSession' = session
          /\ phase' = "EXECUTION"
          /\ MountWith(themeOf(session.themeId), session.tasks,
                       session.gameState, session.logs)
          /\ discarded' = discarded \ {session.gameState}
    /\ UNCHANGED <<storage, generating, started>>
    /\ AppHandler

\* handleSoftReset, from the execution screen or from the resume overlay
handleSoftReset ==
    /\ mounted \/ (phase = "INPUT" /\ ResumeOverlay)
    /\ IF storage # Null
       THEN /\ storage' = createSession(storage.themeId, <<>>, storage.gameState,
                                        storage.logs)
            /\ resumableSession' = [storage EXCEPT !.tasks = <<>>]
            /\ viewGameState' = storage.gameState
       ELSE /\ resumableSession' = Null
            /\ viewGameState' = Null
            /\ UNCHANGED storage
    /\ phase' = "INPUT"
    /\ appTasks' = <<>>
    /\ Unmount
    /\ UNCHANGED <<currentTheme, initialGameState, initialLogs, generating,
                   started, discarded>>
    /\ AppHandler

\* the snapshots with progress that App, the hook and the storage hold
Held ==
    {s \in {state, viewGameState, initialGameState,
            IF resumableSession = Null THEN Null ELSE resumableSession.gameState,
            IF storage = Null THEN Null ELSE storage.gameState} :
        s # Null /\ s # createInitialState}

\* handleHardReset, from the panel
handleHardReset ==
    /\ storage' = Null
    /\ phase' = "INPUT"
    /\ appTasks' = <<>>
    /\ currentTheme' = Null
    /\ initialGameState' = Null
    /\ initialLogs' = <<>>
    /\ viewGameState' = Null
    /\ resumableSession' = Null
    /\ Unmount
    /\ discarded' = discarded \cup Held
    /\ UNCHANGED <<generating, started>>
    /\ AppHandler

\* the page is loaded again: App starts over and checkSave reads the storage
checkSave ==
    /\ phase' = "INPUT"
    /\ appTasks' = <<>>
    /\ currentTheme' = Null
    /\ initialGameState' = Null
    /\ initialLogs' = <<>>
    /\ resumableSession' = storage
    /\ viewGameState' = IF storage = Null THEN Null ELSE storage.gameState
    /\ generating' = {}
    /\ Unmount
    /\ UNCHANGED <<storage, started, discarded>>
    /\ AppHandler

InitApp ==
    /\ tasks = <<>>
    /\ state = Null
    /\ call = NoCall
    /\ result = Null
    /\ nonNullResults = 0
    /\ virtualTime = 0
    /\ logs = <<>>
    /\ \E key \in BOOLEAN : AppStart(key, ClockStart)

\* what happens within one load of the page
NextSession ==
    \/ \E theme \in PickedThemes : handleStartGeneration(theme)
    \/ \E g \in generating : generationDone(g)
    \/ \E themeId \in ImportedThemeIds : handleImportSession(themeId)
    \/ handleSoftReset
    \/ handleHardReset
    \/ \E taskId \in RenderedIds, gap \in ClickGaps : completeTask(taskId, gap)
    \/ addNewTasks
    \/ Render
    \/ AutoSave
    \/ CleanupEvents

NextApp ==
    \/ NextSession
    \/ handleResume
    \/ checkSave

SpecApp == InitApp /\ [][NextApp]_vars

\* One load of the page.  The renders, the timers and the answers of
\* generateGameTasks are not held back for ever (React schedules the render
\* of a state that was set, a timer that is not cleared fires, the generation
\* ends with tasks or with the fallback tasks); the player is free to click
\* or not.
SpecAppFair ==
    /\ InitApp
    /\ [][NextSession]_vars
    /\ WF_vars(Render)
    /\ WF_vars(AutoSave)
    /\ WF_vars(CleanupEvents)
    /\ WF_vars(\E g \in generating : generationDone(g))

\* ---- one execution screen ------------------------------------------------

\* PhaseExecution as handleStartGeneration mounts it for a first mission: the
\* tasks of the first generation, no earlier session
InitHook ==
    /\ call = NoCall
    /\ result = Null
    /\ nonNullResults = 0
    /\ virtualTime = 0
    /\ apiKey = TRUE
    /\ phase = "EXECUTION"
    /\ appTasks = generatedTasksOf(1)
    /\ currentTheme \in PickedThemes
    /\ resumableSession = Null
    /\ initialGameState = Null
    /\ initialLogs = <<>>
    /\ storage = Null
    /\ generating = {}
    /\ started = 1
    /\ clock = ClockStart
    /\ discarded = {}
    /\ mounted = TRUE
    /\ tasks = generatedTasksOf(1)
    /\ state = createInitialState
    /\ logs = <<>>
    /\ events = <<>>
    /\ rendered = [tasks |-> tasks, gameState |-> state, logs |-> logs]
    /\ saveTimer = createSession(currentTheme.id, tasks, state, logs)
    /\ cleanupTimers = <<>>
    /\ viewGameState = state

NextHook ==
    \/ \E taskId \in RenderedIds, gap \in ClickGaps : completeTask(taskId, gap)
    \/ addNewTasks
    \/ Render
    \/ AutoSave
    \/ CleanupEvents

SpecHook == InitHook /\ [][NextHook]_vars

\* The execution screen stays mounted: a state that was set is rendered, and
\* the timers, which nothing clears but a re-render that sets a new one,
\* fire; the player is free to click or not.
SpecHookFair ==
    /\ InitHook
    /\ [][NextHook]_vars
    /\ WF_vars(Render)
    /\ WF_vars(AutoSave)
    /\ WF_vars(CleanupEvents)

(***************************************************************************)
(* Properties                                                              *)
(***************************************************************************)
Called == call # NoCall

\* the timestamp the last call supplied
CallTime == call.timestampOverride.value

\* the task the last call named (ids are unique in the caller's list)
CallTask ==
    call.currentTasks[CHOOSE i \in DOMAIN call.currentTasks :
                          call.currentTasks[i].id = call.taskId]

IdsOf(achievements) == {achievements[i].id : i \in DOMAIN achievements}

\* C1: every snapshot reachable from createInitialState() by calls of
\* processTaskCompletion has 0 <= currentXp < totalXpNeeded.
C1_XpBelowThreshold ==
    /\ 0 <= state.currentXp
    /\ state.currentXp < state.totalXpNeeded

\* The leveling loop of the specification: while the provisional XP reaches the
\* threshold, subtract it, add one level, and grow the threshold by 1.5.
RECURSIVE ReferenceLeveling(_, _, _)
ReferenceLeveling(provisionalXp, level, threshold) ==
    IF provisionalXp >= threshold
    THEN ReferenceLeveling(provisionalXp - threshold, level + 1, (threshold * 3) \div 2)
    ELSE [level |-> level, currentXp |-> provisionalXp, totalXpNeeded |-> threshold]

\* C2: the level, currentXp and totalXpNeeded of a returned snapshot are those
\* of the reference loop run on state.currentXp + xpGained.
C2_LevelingIsReferenceLoop ==
    result # Null =>
        LET ref == ReferenceLeveling(call.currentState.currentXp + result.xpGained,
                                     call.currentState.level,
                                     call.currentState.totalXpNeeded)
        IN  /\ result.newState.level = ref.level
            /\ result.newState.currentXp = ref.currentXp
            /\ result.newState.totalXpNeeded = ref.totalXpNeeded

\* C3: a non-null result has completedTasks one more than the snapshot passed
\* in, a null result leaves the caller with the snapshot it passed in, and the
\* count always equals the number of non-null results since the start.
C3_CountsNonNullResults ==
    /\ result # Null =>
          result.newState.completedTasks = call.currentState.completedTasks + 1
    /\ (Called /\ result = Null) => state = call.currentState
    /\ state.completedTasks = nonNullResults

C3_Witness ==
    /\ Called
    /\ result = Null
    /\ state.completedTasks = 2

\* C4: from one snapshot to the next, level never decreases and totalXpNeeded
\* never decreases.
C4_LevelAndThresholdMonotonic ==
    [][/\ state'.level >= state.level
       /\ state'.totalXpNeeded >= state.totalXpNeeded]_vars

C4_Witness ==
    /\ result # Null
    /\ result.newState.level > call.currentState.level
    /\ result.newState.totalXpNeeded > call.currentState.totalXpNeeded

\* C5: the result is null exactly when no task of the list has the given id or
\* the first task with that id is already completed, and a null result leaves
\* the task list and the snapshot as they were.
C5_NullExactlyWhenNothingToDo ==
    Called =>
        LET matches == {i \in DOMAIN call.currentTasks :
                            call.currentTasks[i].id = call.taskId}
            first   == CHOOSE i \in matches : \A j \in matches : i <= j
        IN  /\ result = Null <=> (matches = {} \/ call.currentTasks[first].completed)
            /\ result = Null => (tasks = call.currentTasks /\ state = call.currentState)

C5_Witness ==
    /\ Called
    /\ result = Null
    /\ \E i \in DOMAIN call.currentTasks :
          call.currentTasks[i].id = call.taskId /\ call.currentTasks[i].completed

\* C6: after a non-null result r for a task id, a second call with that id on
\* r.newTasks and r.newState returns null, whatever the timestamp (supplied or
\* read from the clock).
C6_SecondCompletionIsNull ==
    result # Null =>
        \A t2 \in Timestamps :
            /\ processTaskCompletion(call.taskId, result.newTasks, result.newState,
                                     Some(t2), 0) = Null
            /\ processTaskCompletion(call.taskId, result.newTasks, result.newState,
                                     Omitted, t2) = Null

C6_Witness ==
    /\ result # Null
    /\ \E i \in DOMAIN tasks : tasks[i].id = call.taskId /\ tasks[i].completed
    /\ \E i \in DOMAIN tasks : ~tasks[i].completed

\* C7: the combo of the returned snapshot continues the chain (count + 1,
\* multiplier 1.0 + count * 0.1) when the previous completion time is positive
\* and less than 30000 ms before the timestamp, and otherwise resets to count 1
\* and multiplier 1.0.
C7_ComboRule ==
    result # Null =>
        LET prev == call.currentState.combo
            new  == result.newState.combo
        IN  IF prev.lastCompletionTime > 0 /\ CallTime - prev.lastCompletionTime < 30000
            THEN /\ new.count = prev.count + 1
                 /\ new.multiplier = FAdd(One, FMulInt(new.count, Tenth))
            ELSE /\ new.count = 1
                 /\ new.multiplier = One

\* a chain of two broken by a completion exactly 30000 ms later
C7_Witness ==
    /\ result # Null
    /\ call.currentState.combo.lastCompletionTime > 0
    /\ CallTime - call.currentState.combo.lastCompletionTime = 30000
    /\ call.currentState.combo.count = 2
    /\ result.newState.combo.count = 1

\* C8: xpGained is floor(task.xp * multiplier) for the multiplier of the
\* returned combo, and it is the amount added to currentXp before leveling.
C8_AwardIsMultipliedXp ==
    result # Null =>
        /\ result.xpGained = Floor(FMulInt(CallTask.xp, result.newState.combo.multiplier))
        /\ result.newState.currentXp
              + (IF result.leveledUp THEN call.currentState.totalXpNeeded ELSE 0)
           = call.currentState.currentXp + result.xpGained

\* base 100 at combo count 2 awards 120
C8_Witness ==
    /\ result # Null
    /\ CallTask.xp = 100
    /\ result.newState.combo.count = 2
    /\ result.xpGained = 120
    /\ result.newState.currentXp = call.currentState.currentXp + 120

\* The thresholds by level: 1000, then floor(previous * 1.5).
RECURSIVE ThresholdOfLevel(_)
ThresholdOfLevel(level) ==
    IF level <= 1 THEN 1000 ELSE (ThresholdOfLevel(level - 1) * 3) \div 2

\* C9: totalXpNeeded changes only in an event that levels up, where it becomes
\* floor(previous threshold * 1.5), a strictly larger value; from 1000 the
\* thresholds are 1000, 1500, 2250, 3375, 5062, ...
C9_ThresholdGrowth ==
    /\ result # Null =>
          LET old == call.currentState.totalXpNeeded
              new == result.newState.totalXpNeeded
          IN  IF result.newState.level > call.currentState.level
              THEN new = (old * 3) \div 2 /\ new > old
              ELSE new = old
    /\ state.totalXpNeeded = ThresholdOfLevel(state.level)
    /\ <<ThresholdOfLevel(2), ThresholdOfLevel(3), ThresholdOfLevel(4), ThresholdOfLevel(5)>>
          = <<1500, 2250, 3375, 5062>>

\* the third level-up in a row: 1000, 1500, 2250, 3375
C9_Witness ==
    /\ result # Null
    /\ call.currentState.totalXpNeeded = 2250
    /\ state.level = 4
    /\ state.totalXpNeeded = 3375

\* C10: the achievements unlocked by an event are exactly the rules whose
\* condition holds and whose id the snapshot passed in does not have yet, each
\* once: FIRST_BLOOD (no task completed before), COMBO_MASTER (new combo
\* count >= 3), LEGENDARY (rank S), VETERAN (new level >= 3).
C10_UnlocksExactlyTheRules ==
    result # Null =>
        LET had      == IdsOf(call.currentState.achievements)
            unlocked == IdsOf(result.achievementsUnlocked)
            holds    == [FIRST_BLOOD  |-> call.currentState.completedTasks = 0,
                         COMBO_MASTER |-> result.newState.combo.count >= 3,
                         LEGENDARY    |-> CallTask.difficulty = "S",
                         VETERAN      |-> result.newState.level >= 3]
        IN  /\ unlocked \subseteq DOMAIN holds
            /\ \A id \in DOMAIN holds : id \in unlocked <=> (holds[id] /\ id \notin had)
            /\ Len(result.achievementsUnlocked) = Cardinality(unlocked)

\* three rules unlock in one event
C10_Witness ==
    /\ result # Null
    /\ {"COMBO_MASTER", "LEGENDARY", "VETERAN"} \subseteq IdsOf(result.achievementsUnlocked)

\* C11: no two records of achievements have the same id.
C11_AchievementIdsUnique ==
    \A i, j \in DOMAIN state.achievements :
        state.achievements[i].id = state.achievements[j].id => i = j

\* a rule that holds again for a snapshot that already has its achievement
C11_Witness ==
    /\ result # Null
    /\ "VETERAN" \in IdsOf(call.currentState.achievements)
    /\ result.newState.level >= 3
    /\ Len(state.achievements) >= 2

\* C12: newState.achievements is the achievements passed in followed by exactly
\* the records of achievementsUnlocked, which holds none of the earlier ones.
C12_AchievementsAppended ==
    result # Null =>
        LET old == call.currentState.achievements
            new == result.newState.achievements
        IN  /\ new = old \o result.achievementsUnlocked
            /\ \A i \in DOMAIN old : new[i] = old[i]
            /\ IdsOf(result.achievementsUnlocked) \cap IdsOf(old) = {}

C12_Witness ==
    /\ result # Null
    /\ Len(call.currentState.achievements) >= 1
    /\ Len(result.achievementsUnlocked) >= 1

\* the evaluation order of the rules
RuleOrder == <<"FIRST_BLOOD", "COMBO_MASTER", "LEGENDARY", "VETERAN">>

RulePosition(id) == CHOOSE k \in DOMAIN RuleOrder : RuleOrder[k] = id

\* C13: achievements unlocked in one event appear in the order FIRST_BLOOD,
\* COMBO_MASTER, LEGENDARY, VETERAN, in achievementsUnlocked and in the tail
\* appended to newState.achievements.
C13_UnlockOrder ==
    result # Null =>
        LET unlocked == result.achievementsUnlocked
            new      == result.newState.achievements
            tail     == SubSeq(new, Len(call.currentState.achievements) + 1, Len(new))
            ordered(seq) ==
                \A i, j \in DOMAIN seq :
                    i < j => RulePosition(seq[i].id) < RulePosition(seq[j].id)
        IN  ordered(unlocked) /\ ordered(tail)

C13_Witness ==
    /\ result # Null
    /\ Len(result.achievementsUnlocked) = 2
    /\ result.achievementsUnlocked[1].id = "FIRST_BLOOD"
    /\ result.achievementsUnlocked[2].id = "LEGENDARY"
    /\ Len(result.newState.achievements) = 2

\* readings Date.now() may give
ClockReadings == {0, 1000, 99000}

\* C14: with a timestamp supplied (0 included) the result does not depend on
\* the wall clock: whatever Date.now() reads, the call returns the same result.
C14_SuppliedTimestampIgnoresClock ==
    (Called /\ call.timestampOverride.given) =>
        \A dateNow \in ClockReadings :
            processTaskCompletion(call.taskId, call.currentTasks, call.currentState,
                                  call.timestampOverride, dateNow) = result

\* a completion with the timestamp 0 supplied, after one at a positive time
C14_Witness ==
    /\ result # Null
    /\ call.timestampOverride.given
    /\ CallTime = 0
    /\ call.currentState.combo.lastCompletionTime > 0
    /\ result.newState.combo.lastCompletionTime = 0

\* C15: newTasks has the length and order of the list passed in, the named task
\* is completed with its other fields unchanged, every other task is unchanged,
\* and no completed task becomes uncompleted.
C15_OnlyTargetTaskChanges ==
    result # Null =>
        LET old == call.currentTasks
            new == result.newTasks
        IN  /\ Len(new) = Len(old)
            /\ \A i \in DOMAIN old :
                  /\ new[i] = IF old[i].id = call.taskId
                              THEN [old[i] EXCEPT !.completed = TRUE]
                              ELSE old[i]
                  /\ old[i].completed => new[i].completed

C15_Witness ==
    /\ result # Null
    /\ \E i \in DOMAIN call.currentTasks :
          /\ call.currentTasks[i].completed
          /\ call.currentTasks[i].id # call.taskId
          /\ result.newTasks[i].completed

\* the store holding the arguments of the last call, and the call run on it
CallHeap == HeapOf(call.currentTasks, call.currentState)

CallOnHeap ==
    processTaskCompletionOnHeap(CallHeap.store, call.taskId, CallHeap.tasksRef,
                                CallHeap.stateRef, call.timestampOverride, 0)

\* C16: a call leaves every cell of its arguments as it was (the task array,
\* each task, the snapshot, its momentum, combo and achievements), whether it
\* returns null or not; the values it returns are those of the result.
C16_ArgumentsUnchanged ==
    Called =>
        \E after \in {CallOnHeap} :
            /\ \A ref \in DOMAIN CallHeap.store :
                  after.store[ref] = CallHeap.store[ref]
            /\ ReadArray(after.store, CallHeap.tasksRef) = call.currentTasks
            /\ ReadState(after.store, CallHeap.stateRef) = call.currentState
            /\ ReadResult(after) = result

\* a call that allocated cells, on a snapshot with achievements
C16_Witness ==
    /\ result # Null
    /\ Len(call.currentState.achievements) >= 1
    /\ Len(CallOnHeap.store) > Len(CallHeap.store)
    /\ CallOnHeap.result.newState # CallHeap.stateRef

\* C17: the momentum history never has more than 20 entries; an append to a
\* history of 20 drops exactly the first entry and keeps the order of the rest,
\* an append to a shorter one drops nothing.
C17_MomentumCappedFifo ==
    /\ Len(state.momentum) <= MOMENTUM_HISTORY_LIMIT
    /\ result # Null =>
          LET old == call.currentState.momentum
              new == result.newState.momentum
          IN  IF Len(old) = MOMENTUM_HISTORY_LIMIT
              THEN /\ Len(new) = MOMENTUM_HISTORY_LIMIT
                   /\ \A i \in 1..(Len(old) - 1) : new[i] = old[i + 1]
              ELSE /\ Len(new) = Len(old) + 1
                   /\ \A i \in DOMAIN old : new[i] = old[i]

\* the second append to a full history
C17_Witness ==
    /\ result # Null
    /\ Len(call.currentState.momentum) = MOMENTUM_HISTORY_LIMIT
    /\ call.currentState.momentum[1] > 0
    /\ Len(result.newState.momentum) = MOMENTUM_HISTORY_LIMIT
    /\ result.newState.momentum[1] = call.currentState.momentum[2]

\* C18: the last sample of the new history is the last sample of the old one
\* (0 for an empty history) plus xpGained * 0.5, and it is the only sample
\* added.  Samples are held doubled, so xpGained * 0.5 shows as xpGained.
C18_SampleIsLastPlusHalfAward ==
    result # Null =>
        LET old == call.currentState.momentum
            new == result.newState.momentum
        IN  /\ new[Len(new)] = old[Len(old)] + result.xpGained
            /\ \A i \in 1..(Len(new) - 1) : \E j \in DOMAIN old : new[i] = old[j]
            /\ calculateMomentum(<<>>, result.xpGained) = <<result.xpGained>>

\* an award above the base XP of the task
C18_Witness ==
    /\ result # Null
    /\ result.xpGained > find(call.currentTasks, call.taskId).xp
    /\ LET new == result.newState.momentum
       IN  new[Len(new)] - new[Len(new) - 1] = result.xpGained

\* C19: leveledUp is true exactly when the level of newState is above the level
\* of the snapshot passed in.
C19_LeveledUpIffLevelRose ==
    result # Null =>
        (result.leveledUp <=> result.newState.level > call.currentState.level)

C19_Witness ==
    /\ result # Null
    /\ result.leveledUp
    /\ result.newState.level = call.currentState.level + 1
    /\ call.currentState.completedTasks >= 1

\* C20: comboTriggered is true exactly when the combo count of newState is
\* above 1; it is false for the first completion and for one that resets.
C20_ComboTriggeredIffCountAboveOne ==
    result # Null =>
        /\ result.comboTriggered <=> result.newState.combo.count > 1
        /\ call.currentState.completedTasks = 0 => ~result.comboTriggered

\* a chain of two reset by a completion 35 s later
C20_Witness ==
    /\ result # Null
    /\ call.currentState.combo.count = 2
    /\ CallTime - call.currentState.combo.lastCompletionTime = 35000
    /\ ~result.comboTriggered

\* C21: the time values a completion writes are the timestamp of the call:
\* combo.lastCompletionTime of newState and unlockedAt of every record of
\* achievementsUnlocked; with the timestamp omitted they are the one reading
\* of the clock.
C21_TimesAreTheEventTimestamp ==
    result # Null =>
        /\ result.newState.combo.lastCompletionTime = CallTime
        /\ \A i \in DOMAIN result.achievementsUnlocked :
              result.achievementsUnlocked[i].unlockedAt = CallTime
        /\ \A dateNow \in ClockReadings :
              \E r \in {processTaskCompletion(call.taskId, call.currentTasks,
                                              call.currentState, Omitted, dateNow)} :
                  /\ r.newState.combo.lastCompletionTime = dateNow
                  /\ \A i \in DOMAIN r.achievementsUnlocked :
                        r.achievementsUnlocked[i].unlockedAt = dateNow

\* an unlock at the latest of the timestamps, after an earlier completion
C21_Witness ==
    /\ result # Null
    /\ CallTime = 36000
    /\ call.currentState.combo.lastCompletionTime = 6000
    /\ Len(result.achievementsUnlocked) >= 1
    /\ result.achievementsUnlocked[1].unlockedAt = 36000

\* the invariants of the data model on a snapshot
DataModelInvariant(s) ==
    /\ s.level >= 1
    /\ 0 <= s.currentXp /\ s.currentXp < s.totalXpNeeded
    /\ s.completedTasks >= 0
    /\ Len(s.momentum) <= MOMENTUM_HISTORY_LIMIT
    /\ s.combo.count >= 0
    /\ s.combo.lastCompletionTime >= 0
    /\ Floor(s.combo.multiplier) >= 1
    /\ Cardinality(IdsOf(s.achievements)) = Len(s.achievements)

\* C22: the snapshot the caller starts from, createInitialState(), is level 1,
\* currentXp 0, totalXpNeeded 1000, completedTasks 0, momentum
\* [0, 100, 150, 120, 200] (stored doubled), combo {0, 1.0, 0}, no
\* achievements, and satisfies the invariants of the data model.
C22_InitialSnapshot ==
    nonNullResults = 0 =>
        /\ state.level = 1
        /\ state.currentXp = 0
        /\ state.totalXpNeeded = 1000
        /\ state.completedTasks = 0
        /\ Len(state.momentum) = 5
        /\ \A i \in DOMAIN state.momentum :
              state.momentum[i] = 2 * <<0, 100, 150, 120, 200>>[i]
        /\ state.combo.count = 0
        /\ state.combo.multiplier = FromInt(1)
        /\ state.combo.lastCompletionTime = 0
        /\ state.achievements = <<>>
        /\ DataModelInvariant(state)

\* the fresh snapshot passed to a call, and still held after a null result
C22_Witness ==
    /\ Called
    /\ result = Null
    /\ nonNullResults = 0
    /\ call.currentState = state
    /\ state.completedTasks = 0

\* C23: a call given a snapshot with totalXpNeeded <= 0 or a task with
\* xp <= 0 returns null or a snapshot with 0 <= currentXp < totalXpNeeded.
C23_InvalidInputRejectedOrRepaired ==
    (/\ result # Null
     /\ \/ call.currentState.totalXpNeeded <= 0
        \/ CallTask.xp <= 0)
    => /\ 0 <= result.newState.currentXp
       /\ result.newState.currentXp < result.newState.totalXpNeeded

\* whether nothing was done since the last execution: its log entry of the
\* automatic advance is the newest
JustExecuted(log) ==
    /\ log # <<>>
    /\ Head(log).message = "Time advanced"
    /\ Head(log).ms = AutoAdvance

\* whether '+31s (Break Combo)' was pressed since the last execution
BrokeCombo(log) ==
    \E i \in DOMAIN log :
        /\ log[i].message = "Time advanced"
        /\ log[i].ms = BreakCombo
        /\ \A j \in 1..(i - 1) : log[j].message # "Completed"
        /\ \E k \in (i + 1)..Len(log) : log[k].message = "Completed"

\* C28: every execution of the bench passes the virtual time to the engine and
\* advances it by 5000 ms; an execution right after another extends the combo;
\* one with '+31s (Break Combo)' pressed since the last resets it to count 1.
C28_BenchTimeDrivesCombo ==
    [][nonNullResults' = nonNullResults + 1 =>
          /\ call'.timestampOverride = Some(virtualTime)
          /\ virtualTime' = virtualTime + 5000
          /\ JustExecuted(logs) => state'.combo.count = state.combo.count + 1
          /\ BrokeCombo(logs) => state'.combo.count = 1]_vars

\* a chain of two reset by an execution after '+31s (Break Combo)'
C28_Witness ==
    /\ result # Null
    /\ virtualTime = CallTime + AutoAdvance
    /\ call.currentState.combo.count = 2
    /\ CallTime - call.currentState.combo.lastCompletionTime = AutoAdvance + BreakCombo
    /\ state.combo.count = 1
    /\ Len(logs) >= 3
    /\ logs[3].message = "Time advanced"
    /\ logs[3].ms = BreakCombo

\* the thresholds subtracted by the level-ups from level 1 to level
RECURSIVE ThresholdsBelow(_)
ThresholdsBelow(level) ==
    IF level <= 1 THEN 0
    ELSE ThresholdsBelow(level - 1) + ThresholdOfLevel(level - 1)

\* C29: XP is conserved by leveling: currentXp plus the thresholds subtracted
\* at past level-ups is 0 at the start and grows by xpGained with every
\* non-null result, so it is the sum of xpGained of all of them.
C29_XpConserved ==
    /\ nonNullResults = 0 => state.currentXp + ThresholdsBelow(state.level) = 0
    /\ result # Null =>
          result.newState.currentXp + ThresholdsBelow(result.newState.level)
              = call.currentState.currentXp + ThresholdsBelow(call.currentState.level)
                + result.xpGained

\* a level-up from level 2 that leaves an overflow
C29_Witness ==
    /\ result # Null
    /\ result.leveledUp
    /\ call.currentState.level = 2
    /\ result.newState.currentXp > 0
    /\ result.newState.currentXp + 1000 + 1500
          = call.currentState.currentXp + 1000 + result.xpGained

\* C30: combo.count is 0 exactly when completedTasks is 0; after a completion
\* 1 <= combo.count <= completedTasks; combo.multiplier is 1.0 for a count of
\* at most 1 and 1.0 + 0.1 * count above.
C30_ComboCountAndMultiplier ==
    /\ state.combo.count = 0 <=> state.completedTasks = 0
    /\ state.completedTasks > 0 =>
          /\ 1 <= state.combo.count
          /\ state.combo.count <= state.completedTasks
    /\ state.combo.multiplier =
          IF state.combo.count <= 1 THEN FromInt(1)
          ELSE FAdd(FromInt(1), FMulInt(state.combo.count, Tenth))

\* a reset after a chain, and a long chain
C30_Witness ==
    /\ result # Null
    /\ call.currentState.combo.count >= 5
    /\ state.combo.count = 1
    /\ state.completedTasks >= 6

\* the TASK_COMPLETE entries that completeTask added to the logs since the
\* last render, newest first
Unrendered ==
    SelectSeq(SubSeq(logs, 1, Len(logs) - Len(rendered.logs)),
              LAMBDA entry : entry.type = "TASK_COMPLETE")

\* C24: in useVibeGame, when completeTask was called for two different
\* uncompleted tasks before a re-render, both calls were computed from the
\* tasks and gameState of the last render and one update is lost:
\* completedTasks is one more than in that render, only the task of the last
\* call is marked in addition, and the state is the result of the last call.
C24_StaleSnapshotLosesUpdate ==
    (mounted /\ \E i, j \in DOMAIN Unrendered :
                    Unrendered[i].taskId # Unrendered[j].taskId)
    => /\ state.completedTasks = rendered.gameState.completedTasks + 1
       /\ \A i \in DOMAIN rendered.tasks :
            tasks[i].completed = (rendered.tasks[i].completed
                                  \/ rendered.tasks[i].id = Unrendered[1].taskId)
       /\ result # Null => /\ call.taskId = Unrendered[1].taskId
                           /\ call.currentTasks = rendered.tasks
                           /\ call.currentState = rendered.gameState
                           /\ state = result.newState

\* two tasks were completed from one render and the second result is in place
C24_Witness ==
    /\ mounted
    /\ Len(Unrendered) = 2
    /\ Unrendered[1].taskId # Unrendered[2].taskId
    /\ result # Null
    /\ state = result.newState
    /\ Cardinality({i \in DOMAIN tasks : tasks[i].completed}) = 1

\* C25: after handleHardReset no persisted session and no execution session
\* holds a gameState from before the reset, in every interleaving, a hard
\* reset while handleStartGeneration awaits the generated tasks included.
C25_HardResetLeavesNothingBehind ==
    /\ storage # Null => storage.gameState \notin discarded
    /\ mounted => state \notin discarded

\* the step is a handleSoftReset from the execution screen, pressed after a
\* task was completed and the screen rendered the snapshot of that result
SoftResetOfRendered ==
    /\ mounted
    /\ result # Null
    /\ state = result.newState
    /\ rendered.gameState = state
    /\ ~mounted'
    /\ phase' = "INPUT"
    /\ currentTheme' = currentTheme

\* C26: a soft reset keeps progression: after handleSoftReset from the
\* execution screen, the gameState that the next handleStartGeneration
\* starts the new session with is the one the player had at the reset, and the
\* task list is empty in memory and in the persisted session.
C26_SoftResetKeepsProgression ==
    [][SoftResetOfRendered
       => /\ state = (IF resumableSession' = Null THEN createInitialState
                      ELSE resumableSession'.gameState)
          /\ appTasks' = <<>>
          /\ storage' # Null => storage'.tasks = <<>>]_vars

\* the readings of the clock at which a task can be completed
CompletionTimes ==
    {ClockStart + k * gap : k \in 0..(MaxAppCompletions - 1), gap \in ClickGaps}

\* C27: auto-save: a gameState that a completion produced in useVibeGame and
\* that was rendered (so that the auto-save effect ran for it) is eventually
\* written with saveState (a persisted snapshot at least as new as it
\* exists), for every interleaving of completions, added tasks and unmounting
\* of the execution screen, unless the player wipes the progress with a hard
\* reset.
C27_AutoSaveEventuallyWrites ==
    \A t \in CompletionTimes :
        (mounted /\ rendered.gameState = state
                 /\ state.combo.lastCompletionTime = t)
        ~> \/ /\ storage # Null
              /\ storage.gameState.combo.lastCompletionTime >= t
           \/ discarded # {}

\* the TASK_COMPLETE entries of a log
TaskCompleteEntries(log) == {i \in DOMAIN log : log[i].type = "TASK_COMPLETE"}

\* C31: in useVibeGame, over any interleaving of completeTask calls and
\* re-renders, the number of TASK_COMPLETE log entries, which is the number of
\* COMPLETE events emitted (one per call that returned true), equals the
\* increase of gameState.completedTasks and the number of tasks that changed to
\* completed.
C31_EmittedEqualsCompleted ==
    mounted =>
        /\ Cardinality(TaskCompleteEntries(logs)) = nonNullResults
        /\ Cardinality(TaskCompleteEntries(logs)) = state.completedTasks
        /\ Cardinality(TaskCompleteEntries(logs))
             = Cardinality({i \in DOMAIN tasks : tasks[i].completed})

\* the number of events before those of the k-th pending cleanup timer
RECURSIVE EventsBefore(_)
EventsBefore(k) ==
    IF k = 1 THEN 0 ELSE EventsBefore(k - 1) + cleanupTimers[k - 1]

\* the TASK_COMPLETE entries of the logs, newest first
Completions == SelectSeq(logs, LAMBDA entry : entry.type = "TASK_COMPLETE")

\* the events are the batches of the calls whose cleanup timers are pending,
\* oldest first: the k-th pending timer is that of the k-th of the last
\* Len(cleanupTimers) completions, and the events it will remove are the
\* COMPLETE event of that call and the events that follow it
EventsAreThePendingBatches ==
    /\ Len(events) = EventsBefore(Len(cleanupTimers) + 1)
    /\ Len(cleanupTimers) <= Len(Completions)
    /\ \A k \in DOMAIN cleanupTimers :
          /\ cleanupTimers[k] >= 1
          /\ events[EventsBefore(k) + 1].type = "COMPLETE"
          /\ events[EventsBefore(k) + 1].taskId
               = Completions[Len(cleanupTimers) - k + 1].taskId
          /\ events[EventsBefore(k) + 1].xp
               = Completions[Len(cleanupTimers) - k + 1].xp
          /\ \A j \in 2..cleanupTimers[k] :
                events[EventsBefore(k) + j].type # "COMPLETE"

\* C32: in useVibeGame the events are drained in FIFO order: the cleanup timer
\* of a completeTask call removes exactly the events that this call appended,
\* for any interleaving of completions and timers, and unless completions
\* keep coming the events list eventually becomes empty and stays so.
C32_EventsDrainedFifo ==
    /\ [](mounted => EventsAreThePendingBatches)
    /\ \/ []<><<nonNullResults' > nonNullResults>>_vars
       \/ <>[](events = <<>>)

\* the timer of the first of two calls has fired and removed its three events,
\* those of the second call are left
C32_Witness ==
    /\ mounted
    /\ nonNullResults = 2
    /\ Len(cleanupTimers) = 1
    /\ events # <<>>
    /\ Len(events) = cleanupTimers[1]
    /\ events[1].taskId = Completions[1].taskId
    /\ Completions[1].taskId # Completions[2].taskId

\* C33: in App, whenever phase is EXECUTION the current theme is non-null, so
\* that the execution screen is rendered, after any sequence and interleaving
\* of start-generation, resume, import, soft reset and hard reset, resets
\* issued while a generation is in flight included.
C33_ExecutionHasTheme == phase = "EXECUTION" => currentTheme # Null

\* the positions of the tasks the last call named, in the list it was given
NamedPositions == {i \in DOMAIN call.currentTasks : call.currentTasks[i].id = call.taskId}

\* the first of them
FirstNamed == CHOOSE i \in NamedPositions : \A j \in NamedPositions : i <= j

\* C34: when the list holds several tasks with the id named, a non-null
\* processTaskCompletion marks every task with that id completed and leaves
\* the other tasks as they were, awards the XP of the first of them only
\* (floor of its xp times the multiplier), and increments completedTasks by 1.
C34_DuplicateIdsOneCompletion ==
    (Called /\ result # Null /\ Cardinality(NamedPositions) >= 2) =>
        /\ ~call.currentTasks[FirstNamed].completed
        /\ Len(result.newTasks) = Len(call.currentTasks)
        /\ \A i \in DOMAIN call.currentTasks :
              result.newTasks[i] =
                  IF i \in NamedPositions
                  THEN [call.currentTasks[i] EXCEPT !.completed = TRUE]
                  ELSE call.currentTasks[i]
        /\ result.xpGained
             = Floor(FMulInt(call.currentTasks[FirstNamed].xp,
                             result.newState.combo.multiplier))
        /\ result.newState.completedTasks = call.currentState.completedTasks + 1

\* tasks 1 (100 XP) and 3 (5000 XP) share the id named, the call is the first
\* of the session: both are marked, 100 XP are awarded and one task is counted
C34_Witness ==
    /\ Called /\ result # Null
    /\ NamedPositions = {1, 3}
    /\ ~call.currentTasks[3].completed
    /\ result.newTasks[1].completed /\ result.newTasks[3].completed
    /\ result.xpGained = 100
    /\ result.newState.completedTasks = 1

====
